---------------------------- MODULE Spec2Model ----------------------------
(***************************************************************************)
(* A model of the qibo callback and circuit layer.                         *)
(*                                                                         *)
(*   - Callback / PartialTrace / EntanglementEntropy                       *)
(*     (qibo/tensorflow/callbacks.py): the result sequence, the lazy       *)
(*     binding of the qubit count, the partition normalisation, the        *)
(*     memoised trace pattern and the entropy of the reduced density       *)
(*     matrix.                                                             *)
(*   - BaseCircuit (qibo/base/circuit.py): the gate queue, the             *)
(*     measurement registers and the checks of add.                        *)
(*   - The execution of a queue on one piece and on 2^g pieces.            *)
(*                                                                         *)
(* Amplitudes are exact: a state of n qubits is a vector v of integers     *)
(* with a scale h, standing for the amplitudes v[i] / sqrt(2)^h.  The      *)
(* gates of the model (H and CNOT) keep the amplitudes in that form.       *)
(* Axis q of the reshaped tensor is qubit q; it is the bit of              *)
(* weight 2^(n-1-q) of the basis index (row-major reshape).                *)
(***************************************************************************)
EXTENDS Integers, Sequences, FiniteSets, TLC

\* ------------------------------------------------------------------ bounds
\* Longest result sequence the callback model explores.
MaxResults == 3
\* Largest register a state handed to a callback may have.
MaxQubits == 4

\* ----------------------------------------------------------------- helpers
\* Python's None for an integer attribute (self._nqubits, self.rho_dim).
None == -1

\* Python's None for the partition list.
NoPartition == <<None>>

RECURSIVE Pow2(_)
Pow2(k) == IF k <= 0 THEN 1 ELSE 2 * Pow2(k - 1)

Min(a, b) == IF a <= b THEN a ELSE b

RECURSIVE SumTo(_, _, _)
\* f[lo] + ... + f[hi]
SumTo(f, lo, hi) == IF lo > hi THEN 0 ELSE f[lo] + SumTo(f, lo + 1, hi)

SeqToSet(s) == {s[i] : i \in 1..Len(s)}

\* The function f of domain 1..n as the tuple of its values.
Tuple(f) == SubSeq(f, 1, Len(f))

\* The ascending list of the elements of a finite set of integers.
SortedSeq(S) ==
    CHOOSE s \in [1..Cardinality(S) -> S] :
        \A i, j \in 1..Cardinality(S) : i < j => s[i] < s[j]

\* int(np.log2(m)) for a power of two m.
Log2(m) == CHOOSE k \in 0..30 : Pow2(k) = m

\* Bit of axis q (of nq axes) in the row-major index i.
Bit(i, q, nq) == (i \div Pow2(nq - 1 - q)) % 2

\* Position of qubit q among the members of the set Q, in ascending order.
Pos(q, Q) == Cardinality({x \in Q : x < q})

\* The basis index of n axes whose axes in A carry the bits of a and whose
\* other axes carry the bits of p (both in ascending axis order).
Join(n, A, a, p) ==
    LET B == (0..(n - 1)) \ A
        ca == Cardinality(A)
        cb == Cardinality(B)
    IN SumTo([q \in 0..(n - 1) |->
                 Pow2(n - 1 - q) *
                 (IF q \in A THEN Bit(a, Pos(q, A), ca) ELSE Bit(p, Pos(q, B), cb))],
             0, n - 1)

\* ------------------------------------------------------------------ states
\* A value handed to a callback: its Python type, whether it is passed as a
\* density matrix, its qubit count n, and the amplitudes v / sqrt(2)^h.  A
\* density matrix is given by the pure state it is the projector of.
ZeroState(n) == [n |-> n, h |-> 0, v |-> [i \in 0..(Pow2(n) - 1) |-> IF i = 0 THEN 1 ELSE 0]]

GHZState(n) ==
    [n |-> n, h |-> 1,
     v |-> [i \in 0..(Pow2(n) - 1) |-> IF i = 0 \/ i = Pow2(n) - 1 THEN 1 ELSE 0]]

StateVectors == UNION {{ZeroState(n), GHZState(n)} : n \in 1..MaxQubits}

\* The arguments of a direct call: a value of a wrong type, and every state
\* as a numpy vector and as a density-matrix tensor.
CallArgs ==
    {[type |-> "list", dm |-> FALSE, sv |-> ZeroState(2)]}
    \cup {[type |-> "ndarray", dm |-> FALSE, sv |-> s] : s \in StateVectors}
    \cup {[type |-> "tensor", dm |-> TRUE, sv |-> s] : s \in StateVectors}

\* -------------------------------------------------------- callback state
VARIABLES
    cb_results,     \* Callback._results
    cb_nqubits,     \* Callback._nqubits (None until bound)
    partition,      \* PartialTrace.partition (NoPartition for None)
    rho_dim,        \* PartialTrace.rho_dim
    traceout,       \* PartialTrace._traceout, the memoised trace pattern
    log,            \* history: every recorded result, in invocation order
    given,          \* history: the partition the callback was constructed with
    last            \* the last operation on the callback, its key and outcome

cbvars ==
    <<cb_results, cb_nqubits, partition, rho_dim, traceout, log, given, last>>

VARIABLES
    nqubits,            \* BaseCircuit.nqubits
    queue,              \* BaseCircuit.queue
    final_state,        \* the circuit's _final_state ("None" until executed)
    measurement_sets,   \* BaseCircuit.measurement_sets: register name -> qubits
    measurement_gate,   \* BaseCircuit.measurement_gate
    raised              \* what the last call of add raised ("" for nothing)

circvars ==
    <<nqubits, queue, final_state, measurement_sets, measurement_gate, raised>>

VARIABLES
    ex_queue,       \* the queue under execution: gates and callback markers
    ex_initial,     \* the initial state of both executions
    ex_globals,     \* the global qubits of the distributed execution
    s_state,        \* single execution: the amplitude store
    s_pc,           \* single execution: gates applied so far
    s_cb,           \* single execution: the callback of the markers
    d_pieces,       \* distributed execution: the amplitude store of each piece
    d_pc,           \* distributed execution: gates applied so far
    d_cb            \* distributed execution: the callback of the markers

exvars ==
    <<ex_queue, ex_initial, ex_globals, s_state, s_pc, s_cb, d_pieces, d_pc, d_cb>>

\* ------------------------------------------------- configuration state
VARIABLES
    DTYPES,          \* config.DTYPES
    ALLOW_SWITCHERS, \* config.ALLOW_SWITCHERS
    BACKEND,         \* config.BACKEND
    DEVICES,         \* config.DEVICES: the device counts and the default
    cfg_last         \* the last call of a switcher or getter and its outcome

cfgvars == <<DTYPES, ALLOW_SWITCHERS, BACKEND, DEVICES, cfg_last>>

\* ------------------------------------------------------- _entropy state
VARIABLES
    eigvals,         \* the eigenvalues of the matrix handed to _entropy
    ent_result       \* what _entropy returned for them

entvars == <<eigvals, ent_result>>

\* ----------------------------------------------- circuit addition state
VARIABLES
    c1,              \* the left operand of c1 + c2
    c2,              \* the right operand
    newcircuit,      \* the circuit c1 + c2 returned
    add_raised       \* what c1 + c2 raised

addvars == <<c1, c2, newcircuit, add_raised>>

vars == <<cbvars, circvars, exvars, cfgvars, entvars, addvars>>

\* The pattern DefaultEinsum.partialtrace_str(partition, nqubits) stands for.
TracePattern(P, n) == [traced |-> P, n |-> n]

NoTrace == [traced |-> {}, n |-> None]

\* Keys of __getitem__: an int, a slice lo:hi (hi = None for an open end),
\* a list or a tuple of indices, or a string.
IntKey(i) == [type |-> "int", i |-> i, lo |-> 0, hi |-> None, idx |-> <<>>]

SliceKey(lo, hi) == [type |-> "slice", i |-> 0, lo |-> lo, hi |-> hi, idx |-> <<>>]

ListKey(t, idx) == [type |-> t, i |-> 0, lo |-> 0, hi |-> None, idx |-> idx]

StrKey == [type |-> "str", i |-> 0, lo |-> 0, hi |-> None, idx |-> <<>>]

NoKey == [type |-> "none", i |-> 0, lo |-> 0, hi |-> None, idx |-> <<>>]

\* In the record of a call: the Python type of the value passed, whether it
\* is passed as a density matrix, and its qubit count.
TypeOf(arg) == [type |-> arg.type, dm |-> arg.dm, n |-> arg.sv.n]

Keys ==
    {IntKey(i) : i \in (0 - 2)..(MaxResults + 1)}
    \cup {SliceKey(lo, hi) : lo \in 0..1, hi \in {None, 1, MaxResults}}
    \cup {ListKey(t, idx) : t \in {"list", "tuple"},
                            idx \in {<<>>, <<0>>, <<1, 0>>, <<0, MaxResults>>}}
    \cup {StrKey}

Outcome(op, key, outcome, value) ==
    [op |-> op, key |-> key, outcome |-> outcome, value |-> value]

\* list.__getitem__(k) of Python for an int k.
PyListIndex(res, k) ==
    IF 0 <= k /\ k < Len(res) THEN [outcome |-> "ok", value |-> <<res[k + 1]>>]
    ELSE IF k < 0 /\ 0 - k <= Len(res)
         THEN [outcome |-> "ok", value |-> <<res[Len(res) + k + 1]>>]
         ELSE [outcome |-> "IndexError", value |-> <<>>]

\* list.__getitem__(slice(lo, hi)) of Python for bounds >= 0 or None.
PyListSlice(res, lo, hi) ==
    SubSeq(res, lo + 1, IF hi = None THEN Len(res) ELSE Min(hi, Len(res)))

\* tf.stack(values): the tensor of the values in their order; the Pack op
\* takes at least one value and raises on an empty list.
Stack(values) ==
    IF Len(values) = 0 THEN [outcome |-> "StackError", value |-> <<>>]
    ELSE [outcome |-> "ok", value |-> values]

\* __getitem__ with no bounds check on an int key: an index outside the list
\* returns nothing instead of raising.
GetItemNoBoundsCheck(res, k) ==
    IF k.type = "int" THEN
        IF 0 <= k.i /\ k.i < Len(res)
        THEN [outcome |-> "ok", value |-> <<res[k.i + 1]>>]
        ELSE [outcome |-> "ok", value |-> <<>>]
    ELSE IF k.type = "slice"
    THEN Stack(PyListSlice(res, k.lo, k.hi))
    ELSE IF k.type \in {"list", "tuple"}
    THEN [outcome |-> "TypeError", value |-> <<>>]
    ELSE [outcome |-> "IndexError", value |-> <<>>]

\* Callback.__getitem__: the outcome and the value returned.
GetItem(res, k) ==
    IF k.type = "int" THEN
        IF k.i > Len(res) THEN [outcome |-> "IndexError", value |-> <<>>]
        ELSE PyListIndex(res, k.i)
    ELSE IF k.type \in {"slice", "list", "tuple"} THEN
        \* self._results is a Python list: it takes a slice, and raises
        \* TypeError for a list or a tuple of indices.
        IF k.type = "slice"
        THEN Stack(PyListSlice(res, k.lo, k.hi))
        ELSE [outcome |-> "TypeError", value |-> <<>>]
    ELSE [outcome |-> "IndexError", value |-> <<>>]

\* ---------------------------------------------------- PartialTrace.nqubits
\* list(range(n // 2 + n % 2))
DefaultPartition(n) == [i \in 1..((n \div 2) + (n % 2)) |-> i - 1]

\* [i for i in range(n) if i not in set(self.partition)]
Complement(p, n) == SortedSeq((0..(n - 1)) \ SeqToSet(p))

\* The setter with the comparison turned round: the partition is replaced
\* when it holds more than half of the qubits.
NqubitsSetterSwitchLarger(p, n) ==
    LET p0 == IF p = NoPartition THEN DefaultPartition(n) ELSE p
        p1 == IF 2 * Len(p0) > n THEN Complement(p0, n) ELSE p0
    IN [nqubits |-> n, partition |-> p1,
        rho_dim |-> Pow2(n - Len(p1)), traceout |-> NoTrace]

\* The setter of PartialTrace.nqubits: the attributes after self.nqubits = n.
NqubitsSetter(p, n) ==
    LET p0 == IF p = NoPartition THEN DefaultPartition(n) ELSE p
        p1 == IF Len(p0) < n \div 2 THEN Complement(p0, n) ELSE p0
    IN [nqubits |-> n, partition |-> p1,
        rho_dim |-> Pow2(n - Len(p1)), traceout |-> NoTrace]

\* The attributes as they stand.
Attrs ==
    [nqubits |-> cb_nqubits, partition |-> partition,
     rho_dim |-> rho_dim, traceout |-> traceout]

\* A partition the callback can be bound to n qubits with: distinct qubit
\* ids of the register.
FitsRegister(p, n) == p = NoPartition \/ SeqToSet(p) \subseteq 0..(n - 1)

\* ------------------------------------------------- reduced density matrix
\* tf.tensordot(state, conj(state), axes=[partition, partition]) reshaped to
\* (rho_dim, rho_dim): the axes in the partition are summed over, the other
\* axes stay, in ascending order.  The entries are in units of 1 / 2^h.
ReducedDensity(sv, p) ==
    LET P == SeqToSet(p)
        K == (0..(sv.n - 1)) \ P
        d == Pow2(Cardinality(K))
        t == Pow2(Cardinality(P))
        at == Tuple([a \in 1..d |->
                  Tuple([x \in 1..t |-> sv.v[Join(sv.n, K, a - 1, x - 1)]])])
    IN Tuple([a \in 1..d |-> Tuple([b \in 1..d |->
            SumTo([x \in 1..t |-> at[a][x] * at[b][x]], 1, t)])])

\* A matrix is the tuple of its rows.
MatDim(M) == Len(M)

MatMul(A, B) ==
    LET d == MatDim(A)
    IN Tuple([a \in 1..d |-> Tuple([b \in 1..d |->
           SumTo([x \in 1..d |-> A[a][x] * B[x][b]], 1, d)])])

Trace(M) == SumTo([a \in 1..MatDim(M) |-> M[a][a]], 1, MatDim(M))

RECURSIVE PowerTraces(_, _, _)
\* <<Trace(P), Trace(P M), Trace(P M^2), ...>>, k of them.
PowerTraces(M, P, k) ==
    IF k = 0 THEN <<>> ELSE <<Trace(P)>> \o PowerTraces(M, MatMul(P, M), k - 1)

RECURSIVE Spectra(_, _, _)
\* The non-increasing lists of d naturals, none above mx, of sum t.
Spectra(d, t, mx) ==
    IF d = 0 THEN (IF t = 0 THEN {<<>>} ELSE {})
    ELSE UNION {{<<x>> \o s : s \in Spectra(d - 1, t - x, x)} : x \in 0..Min(t, mx)}

SeqSum(s) == SumTo(s, 1, Len(s))

RECURSIVE IntPow(_, _)
IntPow(x, k) == IF k = 0 THEN 1 ELSE x * IntPow(x, k - 1)

\* tf.linalg.eigvalsh(rho) for a positive matrix of integer eigenvalues: the
\* list of d naturals whose power sums are the traces of the powers of rho.
Eigvalsh(M) ==
    LET d == MatDim(M)
        tr == PowerTraces(M, M, d)
    IN CHOOSE s \in Spectra(d, tr[1], tr[1]) :
          \A k \in 2..d : SeqSum([i \in 1..d |-> IntPow(s[i], k)]) = tr[k]

\* eigvals > EIGVAL_CUTOFF for an eigenvalue e / 2^h: the cutoff, 1e-14, lies
\* strictly between 0 and the least positive eigenvalue 1 / 2^h of the model.
AboveCutoff(e, h) == e > 0

\* _entropy with the sign of the sum dropped.
EntropyWrongSign(M, h) ==
    LET eig == Eigvalsh(M)
    IN 0 - (SeqSum([i \in DOMAIN eig |->
                  IF AboveCutoff(eig[i], h) THEN eig[i] * (h - Log2(eig[i])) ELSE 0])
            \div Pow2(h))

\* EntanglementEntropy._entropy in bits: - sum e/2^h * log2(e/2^h) over the
\* masked eigenvalues; log2 is exact on the eigenvalues, which are powers of
\* two.
Entropy(M, h) ==
    LET eig == Eigvalsh(M)
    IN SeqSum([i \in DOMAIN eig |->
                  IF AboveCutoff(eig[i], h) THEN eig[i] * (h - Log2(eig[i])) ELSE 0])
       \div Pow2(h)

\* The entropies of the states of StateVectors, for every partition a bound
\* callback can hold: the same values as Entropy(ReducedDensity(..)), computed
\* once.
EntropyTable ==
    [sv \in StateVectors |->
        [p \in {SortedSeq(S) : S \in {T \in SUBSET (0..(sv.n - 1)) :
                                         Cardinality(T) >= sv.n \div 2}} |->
            Entropy(ReducedDensity(sv, p), sv.h)]]

\* The value of EntanglementEntropy.__call__ on the pure state sv (or on its
\* projector) for the bound partition p.
EntropyOf(sv, p) ==
    IF sv \in DOMAIN EntropyTable /\ p \in DOMAIN EntropyTable[sv]
    THEN EntropyTable[sv][p]
    ELSE Entropy(ReducedDensity(sv, p), sv.h)

\* ------------------------------------------------------ callback operations
\* Values a caller records by hand with append / extend.
Values == {0, 1}

\* The partitions a callback is constructed with: None, or a list of
\* distinct qubit ids.
Partitions ==
    {NoPartition} \cup {SortedSeq(S) : S \in SUBSET (0..(MaxQubits - 1))}

\* append that puts the result in front of the recorded ones.
Callback_prepend(r) ==
    /\ Len(cb_results) < MaxResults
    /\ cb_results' = <<r>> \o cb_results
    /\ log' = Append(log, r)
    /\ last' = Outcome("append", NoKey, "ok", <<r>>)
    /\ UNCHANGED <<cb_nqubits, partition, rho_dim, traceout, given>>
    /\ UNCHANGED <<circvars, exvars, cfgvars, entvars, addvars>>

\* Callback.append(result)
Callback_append(r) ==
    /\ Len(cb_results) < MaxResults
    /\ cb_results' = Append(cb_results, r)
    /\ log' = Append(log, r)
    /\ last' = Outcome("append", NoKey, "ok", <<r>>)
    /\ UNCHANGED <<cb_nqubits, partition, rho_dim, traceout, given>>
    /\ UNCHANGED <<circvars, exvars, cfgvars, entvars, addvars>>

\* Callback.extend(result)
Callback_extend(rs) ==
    /\ Len(cb_results) + Len(rs) <= MaxResults
    /\ cb_results' = cb_results \o rs
    /\ log' = log \o rs
    /\ last' = Outcome("extend", NoKey, "ok", rs)
    /\ UNCHANGED <<cb_nqubits, partition, rho_dim, traceout, given>>
    /\ UNCHANGED <<circvars, exvars, cfgvars, entvars, addvars>>

\* Callback.__getitem__(k)
Callback_getitem(k) ==
    /\ \E e \in {GetItem(cb_results, k)} :
          last' = Outcome("getitem", k, e.outcome, e.value)
    /\ UNCHANGED <<cb_results, cb_nqubits, partition, rho_dim, traceout, log, given>>
    /\ UNCHANGED <<circvars, exvars, cfgvars, entvars, addvars>>

\* The setter without self._traceout = None.
PartialTrace_nqubitsKeepsPattern(n) ==
    /\ FitsRegister(partition, n)
    /\ \E a \in {NqubitsSetter(partition, n)} :
          /\ cb_nqubits' = a.nqubits
          /\ partition' = a.partition
          /\ rho_dim' = a.rho_dim
    /\ last' = Outcome("nqubits", NoKey, "ok", <<n>>)
    /\ UNCHANGED <<cb_results, log, given, traceout>>
    /\ UNCHANGED <<circvars, exvars, cfgvars, entvars, addvars>>

\* self.nqubits = n, by the caller.
PartialTrace_nqubits(n) ==
    /\ FitsRegister(partition, n)
    /\ \E a \in {NqubitsSetter(partition, n)} :
          /\ cb_nqubits' = a.nqubits
          /\ partition' = a.partition
          /\ rho_dim' = a.rho_dim
          /\ traceout' = a.traceout
    /\ last' = Outcome("nqubits", NoKey, "ok", <<n>>)
    /\ UNCHANGED <<cb_results, log, given>>
    /\ UNCHANGED <<circvars, exvars, cfgvars, entvars, addvars>>

\* __call__ that binds nqubits from the state on every invocation.
CallEffectRebinds(attrs, arg) ==
    IF arg.type \notin {"ndarray", "tensor"}
    THEN [attrs |-> attrs, outcome |-> "TypeError", value |-> <<>>]
    ELSE
      LET a == NqubitsSetter(attrs.partition, Log2(Pow2(arg.sv.n)))
      IN [attrs |->
             IF arg.dm
             THEN [a EXCEPT !.traceout = TracePattern(SeqToSet(a.partition), a.nqubits)]
             ELSE a,
          outcome |-> "ok",
          value |-> <<EntropyOf(arg.sv, a.partition)>>]

\* __call__ with the type check moved behind the binding of nqubits.
CallEffectBindFirst(attrs, arg) ==
    LET a == IF attrs.nqubits = None
             THEN NqubitsSetter(attrs.partition, Log2(Pow2(arg.sv.n)))
             ELSE attrs
    IN IF arg.type \notin {"ndarray", "tensor"}
       THEN [attrs |-> a, outcome |-> "TypeError", value |-> <<>>]
       ELSE IF a.nqubits # arg.sv.n
       THEN [attrs |-> a, outcome |-> "InvalidArgumentError", value |-> <<>>]
       ELSE [attrs |->
                IF arg.dm /\ a.traceout = NoTrace
                THEN [a EXCEPT !.traceout = TracePattern(SeqToSet(a.partition), a.nqubits)]
                ELSE a,
             outcome |-> "ok",
             value |-> <<EntropyOf(arg.sv, a.partition)>>]

\* EntanglementEntropy.__call__(state, is_density_matrix): the attributes
\* after the call, its outcome and the value it returns.
CallEffect(attrs, arg) ==
    IF arg.type \notin {"ndarray", "tensor"}
    THEN [attrs |-> attrs, outcome |-> "TypeError", value |-> <<>>]
    ELSE
      LET a == IF attrs.nqubits = None
               THEN NqubitsSetter(attrs.partition, Log2(Pow2(arg.sv.n)))
               ELSE attrs
      IN IF a.nqubits # arg.sv.n
         THEN \* tf.reshape rejects a state of another size
              [attrs |-> a, outcome |-> "InvalidArgumentError", value |-> <<>>]
         ELSE
           [attrs |->
               IF arg.dm /\ a.traceout = NoTrace
               THEN [a EXCEPT !.traceout = TracePattern(SeqToSet(a.partition), a.nqubits)]
               ELSE a,
            outcome |-> "ok",
            value |-> <<EntropyOf(arg.sv, a.partition)>>]

\* A direct call of the callback on a value.
PartialTrace_call(arg) ==
    /\ cb_nqubits = None => FitsRegister(partition, arg.sv.n)
    /\ \E e \in {CallEffect(Attrs, arg)} :
          /\ cb_nqubits' = e.attrs.nqubits
          /\ partition' = e.attrs.partition
          /\ rho_dim' = e.attrs.rho_dim
          /\ traceout' = e.attrs.traceout
          /\ last' = Outcome("call", TypeOf(arg), e.outcome, e.value)
    /\ UNCHANGED <<cb_results, log, given>>
    /\ UNCHANGED <<circvars, exvars, cfgvars, entvars, addvars>>

\* A callback gate reached by an execution: the callback is called on the
\* current state and its result is appended.
CallbackGate_call(sv) ==
    /\ Len(cb_results) < MaxResults
    /\ cb_nqubits = None => FitsRegister(partition, sv.n)
    /\ cb_nqubits # None => cb_nqubits = sv.n
    /\ \E e \in {CallEffect(Attrs, [type |-> "tensor", dm |-> FALSE, sv |-> sv])} :
          /\ cb_nqubits' = e.attrs.nqubits
          /\ partition' = e.attrs.partition
          /\ rho_dim' = e.attrs.rho_dim
          /\ traceout' = e.attrs.traceout
          /\ cb_results' = Append(cb_results, e.value[1])
          /\ log' = Append(log, e.value[1])
          /\ last' = Outcome("gate", NoKey, e.outcome, e.value)
    /\ UNCHANGED given
    /\ UNCHANGED <<circvars, exvars, cfgvars, entvars, addvars>>

\* ------------------------------------------------------------ BaseCircuit
\* Longest queue the circuit model explores.
MaxDepth == 3

\* The register sizes of the circuits explored.
CircuitQubits == {2, 3}

\* self.measurement_gate = None
NoGate == [present |-> FALSE, target_qubits |-> <<>>]

\* register_name = None
NoName == "None"

RegisterNames == {NoName, "Register1"}

\* "Register{}".format(k)
AutoName(k) == "Register" \o ToString(k)

\* A gate object handed to add: its name, the qubits it acts on, its target
\* qubits, its own qubit count (None for a gate not yet bound) and, for a
\* measurement gate, its register name.
Gate(name, qubits, targets, nq, reg) ==
    [name |-> name, qubits |-> qubits, target_qubits |-> targets,
     nq |-> nq, register_name |-> reg]

\* The gates offered to a circuit of n qubits.  Unbound: H on every qubit,
\* CNOT(0, 1) and a measurement of every non-empty set of qubits, unnamed
\* and named.  Bound to n already: the H gates.  Bound to another count: an
\* H gate and a measurement.
GatesFor(n) ==
    {Gate("h", <<q>>, <<q>>, nq, NoName) : q \in 0..(n - 1), nq \in {None, n}}
    \cup {Gate("cnot", <<0, 1>>, <<1>>, None, NoName)}
    \cup {Gate("measure", SortedSeq(S), SortedSeq(S), None, reg) :
             S \in (SUBSET (0..(n - 1))) \ {{}}, reg \in RegisterNames}
    \cup {Gate("h", <<0>>, <<0>>, n + 1, NoName),
          Gate("measure", <<0>>, <<0>>, n + 1, NoName)}

\* The circuit as the record of its attributes.
Circuit ==
    [nqubits |-> nqubits, queue |-> queue, final_state |-> final_state,
     measurement_sets |-> measurement_sets, measurement_gate |-> measurement_gate]

\* _check_measured that looks at the first qubit of the gate only.
CheckMeasuredFirstQubit(c, gate_qubits) ==
    /\ Len(gate_qubits) > 0
    /\ c.measurement_gate.present
    /\ gate_qubits[1] \in SeqToSet(c.measurement_gate.target_qubits)

\* BaseCircuit._check_measured(gate_qubits): TRUE when it raises.
CheckMeasuredRaises(c, gate_qubits) ==
    \E i \in 1..Len(gate_qubits) :
        /\ c.measurement_gate.present
        /\ gate_qubits[i] \in SeqToSet(c.measurement_gate.target_qubits)

\* BaseCircuit.add_measurement(gate): the circuit after it and what it raised.
AddMeasurement(c, gate) ==
    LET auto == gate.register_name = NoName
        name == IF auto THEN AutoName(Cardinality(DOMAIN c.measurement_sets))
                ELSE gate.register_name
    IN IF ~auto /\ name \in DOMAIN c.measurement_sets
       THEN [circuit |-> c, raised |-> "KeyError"]
       ELSE [circuit |->
                [c EXCEPT
                   !.measurement_sets =
                       [r \in DOMAIN c.measurement_sets \cup {name} |->
                           IF r = name THEN gate.target_qubits
                           ELSE c.measurement_sets[r]],
                   !.measurement_gate =
                       IF ~c.measurement_gate.present
                       THEN [present |-> TRUE, target_qubits |-> gate.target_qubits]
                       ELSE \* self.measurement_gate.add(gate.target_qubits)
                            [present |-> TRUE,
                             target_qubits |-> c.measurement_gate.target_qubits
                                               \o gate.target_qubits]],
             raised |-> ""]

\* add without the check of the final state.
AddAfterExecution(c, gate) ==
    IF gate.nq # None /\ gate.nq # c.nqubits
    THEN [circuit |-> c, raised |-> "ValueError: qubit count"]
    ELSE IF CheckMeasuredRaises(c, gate.qubits)
    THEN [circuit |-> c, raised |-> "ValueError: measured"]
    ELSE IF gate.name = "measure"
    THEN AddMeasurement(c, gate)
    ELSE [circuit |-> [c EXCEPT !.queue = Append(c.queue, [gate EXCEPT !.nq = c.nqubits])],
          raised |-> ""]

\* add that queues a gate as it comes, whatever qubit count it is bound to.
AddAnyCount(c, gate) ==
    IF c.final_state # "None"
    THEN [circuit |-> c, raised |-> "RuntimeError"]
    ELSE IF CheckMeasuredRaises(c, gate.qubits)
    THEN [circuit |-> c, raised |-> "ValueError: measured"]
    ELSE IF gate.name = "measure"
    THEN AddMeasurement(c, gate)
    ELSE [circuit |-> [c EXCEPT !.queue = Append(c.queue, gate)], raised |-> ""]

\* BaseCircuit.add(gate): the circuit after it and what it raised.
Add(c, gate) ==
    IF c.final_state # "None"
    THEN [circuit |-> c, raised |-> "RuntimeError"]
    ELSE IF gate.nq # None /\ gate.nq # c.nqubits
    THEN [circuit |-> c, raised |-> "ValueError: qubit count"]
    ELSE IF CheckMeasuredRaises(c, gate.qubits)
    THEN [circuit |-> c, raised |-> "ValueError: measured"]
    ELSE IF gate.name = "measure"
    THEN AddMeasurement(c, gate)
    ELSE [circuit |-> [c EXCEPT !.queue = Append(c.queue, [gate EXCEPT !.nq = c.nqubits])],
          raised |-> ""]

\* c.add(gate)
BaseCircuit_add(gate) ==
    /\ Len(Add(Circuit, gate).circuit.queue) <= MaxDepth
    /\ \E e \in {Add(Circuit, gate)} :
          /\ queue' = e.circuit.queue
          /\ measurement_sets' = e.circuit.measurement_sets
          /\ measurement_gate' = e.circuit.measurement_gate
          /\ raised' = e.raised
    /\ UNCHANGED <<nqubits, final_state>>
    /\ UNCHANGED <<cbvars, exvars, cfgvars, entvars, addvars>>

\* The circuit is executed: it holds a final state from now on.
Circuit_execute ==
    /\ final_state' = "tensor"
    /\ raised' = ""
    /\ UNCHANGED <<nqubits, queue, measurement_sets, measurement_gate>>
    /\ UNCHANGED <<cbvars, exvars, cfgvars, entvars, addvars>>

\* --------------------------------------------------------------- execution
\* Longest generated queue the execution model runs.
MaxExecDepth == 3

\* The register sizes of the executions explored.
ExecQubits == {2, 3}

\* An entry of the queue: a gate with one target and a set of controls, or a
\* callback marker.
H(q) == [name |-> "h", target |-> q, controls |-> {}]

CNOT(c, t) == [name |-> "cnot", target |-> t, controls |-> {c}]

CallbackMarker == [name |-> "callback", target |-> 0, controls |-> {}]

\* The 2 x 2 matrix of a gate, in units of 1 / sqrt(2)^GateScale.
GateMatrix(name) ==
    IF name = "h"
    THEN (0 :> (0 :> 1 @@ 1 :> 1) @@ 1 :> (0 :> 1 @@ 1 :> (0 - 1)))
    ELSE (0 :> (0 :> 0 @@ 1 :> 1) @@ 1 :> (0 :> 1 @@ 1 :> 0))

GateScale(name) == IF name = "h" THEN 1 ELSE 0

\* The index i of nq axes with the bit of axis q set to b.
SetBit(i, q, nq, b) == i + (b - Bit(i, q, nq)) * Pow2(nq - 1 - q)

\* The bits of the axes in Q of the index i of n axes, in ascending order.
Project(i, Q, n) ==
    SumTo([q \in 0..(n - 1) |->
              IF q \in Q THEN Bit(i, q, n) * Pow2(Cardinality(Q) - 1 - Pos(q, Q)) ELSE 0],
          0, n - 1)

\* Gate applicator: the matrix is contracted against the target axis on the
\* slice where every control reads 1; the other amplitudes are untouched.
ApplyGate(sv, g) ==
    LET M == GateMatrix(g.name)
    IN [n |-> sv.n, h |-> sv.h + GateScale(g.name),
        v |-> [i \in DOMAIN sv.v |->
                 IF \A c \in g.controls : Bit(i, c, sv.n) = 1
                 THEN LET r == Bit(i, g.target, sv.n)
                      IN M[r][0] * sv.v[SetBit(i, g.target, sv.n, 0)]
                         + M[r][1] * sv.v[SetBit(i, g.target, sv.n, 1)]
                 ELSE sv.v[i]]]

\* The pieces of a state for the global qubits G: piece p holds the
\* amplitudes of the basis states whose global bits read p.
Split(sv, G) ==
    LET g == Cardinality(G)
    IN [n |-> sv.n, h |-> sv.h,
        amp |-> [p \in 0..(Pow2(g) - 1) |->
                   [l \in 0..(Pow2(sv.n - g) - 1) |-> sv.v[Join(sv.n, G, p, l)]]]]

\* The composed state of the pieces.
Compose(pcs, G) ==
    LET L == (0..(pcs.n - 1)) \ G
    IN [n |-> pcs.n, h |-> pcs.h,
        v |-> [i \in 0..(Pow2(pcs.n) - 1) |->
                 pcs.amp[Project(i, G, pcs.n)][Project(i, L, pcs.n)]]]

\* The pairing with the bits of the piece index counted from the other end.
PartnerReversedBits(p, t, G) ==
    LET g == Cardinality(G)
    IN SetBit(p, g - 1 - Pos(t, G), g, 1 - Bit(p, g - 1 - Pos(t, G), g))

\* The piece paired with p for the global qubit t: p xor 2^b, b the bit of t.
Partner(p, t, G) ==
    LET g == Cardinality(G)
    IN SetBit(p, Pos(t, G), g, 1 - Bit(p, Pos(t, G), g))

\* The pieces on which a gate acts: those whose global controls read 1.
Active(p, g, G) ==
    \A c \in g.controls \cap G : Bit(p, Pos(c, G), Cardinality(G)) = 1

\* A gate whose target is local: every piece applies it on its own store.
ApplyLocal(pcs, g, G) ==
    LET L == (0..(pcs.n - 1)) \ G
        nl == Cardinality(L)
        M == GateMatrix(g.name)
        t == Pos(g.target, L)
    IN [pcs EXCEPT
          !.h = pcs.h + GateScale(g.name),
          !.amp = [p \in DOMAIN pcs.amp |-> [l \in DOMAIN pcs.amp[p] |->
                     IF Active(p, g, G)
                        /\ \A c \in g.controls \ G : Bit(l, Pos(c, L), nl) = 1
                     THEN LET r == Bit(l, t, nl)
                          IN M[r][0] * pcs.amp[p][SetBit(l, t, nl, 0)]
                             + M[r][1] * pcs.amp[p][SetBit(l, t, nl, 1)]
                     ELSE pcs.amp[p][l]]]]

\* A gate whose target is global: each piece exchanges with its partner and
\* the gate is applied across the paired blocks.
ApplyGlobal(pcs, g, G) ==
    LET L == (0..(pcs.n - 1)) \ G
        nl == Cardinality(L)
        ng == Cardinality(G)
        M == GateMatrix(g.name)
    IN [pcs EXCEPT
          !.h = pcs.h + GateScale(g.name),
          !.amp = [p \in DOMAIN pcs.amp |-> [l \in DOMAIN pcs.amp[p] |->
                     IF Active(p, g, G)
                        /\ \A c \in g.controls \ G : Bit(l, Pos(c, L), nl) = 1
                     THEN LET r == Bit(p, Pos(g.target, G), ng)
                          IN M[r][r] * pcs.amp[p][l]
                             + M[r][1 - r] * pcs.amp[Partner(p, g.target, G)][l]
                     ELSE pcs.amp[p][l]]]]

\* A callback object: its result sequence and its attributes.
NewCallback(p) ==
    [results |-> <<>>,
     attrs |-> [nqubits |-> None, partition |-> p, rho_dim |-> None,
                traceout |-> NoTrace]]

\* A callback marker: the callback is called on the state and the result is
\* appended to its results.
GateCall(cb, sv) ==
    CHOOSE c \in {[results |-> Append(cb.results, e.value[1]), attrs |-> e.attrs] :
                    e \in {CallEffect(cb.attrs,
                                      [type |-> "tensor", dm |-> FALSE, sv |-> sv])}} :
        TRUE

\* The gates of the generated queues of n qubits.
ExecGates(n) ==
    {H(q) : q \in 0..(n - 1)}
    \cup {CNOT(q, (q + 1) % n) : q \in 0..(n - 1)}
    \cup {CallbackMarker}

\* The queue of the example: entropy before any gate, after H(0) and after
\* CNOT(0, 1).
ExampleQueue == <<CallbackMarker, H(0), CallbackMarker, CNOT(0, 1), CallbackMarker>>

Queues(n) ==
    UNION {[1..k -> ExecGates(n)] : k \in 0..MaxExecDepth}
    \cup (IF n = 2 THEN {ExampleQueue} ELSE {})

\* Single execution, a gate.
Single_gate ==
    /\ s_pc < Len(ex_queue)
    /\ ex_queue[s_pc + 1].name # "callback"
    /\ s_state' = ApplyGate(s_state, ex_queue[s_pc + 1])
    /\ s_pc' = s_pc + 1
    /\ UNCHANGED <<ex_queue, ex_initial, ex_globals, s_cb, d_pieces, d_pc, d_cb>>
    /\ UNCHANGED <<cbvars, circvars, cfgvars, entvars, addvars>>

\* Single execution, a callback marker.
Single_callback ==
    /\ s_pc < Len(ex_queue)
    /\ ex_queue[s_pc + 1].name = "callback"
    /\ s_cb' = GateCall(s_cb, s_state)
    /\ s_pc' = s_pc + 1
    /\ UNCHANGED <<ex_queue, ex_initial, ex_globals, s_state, d_pieces, d_pc, d_cb>>
    /\ UNCHANGED <<cbvars, circvars, cfgvars, entvars, addvars>>

\* Distributed execution, a gate whose target is local.
Distributed_local ==
    /\ s_pc = Len(ex_queue)
    /\ d_pc < Len(ex_queue)
    /\ ex_queue[d_pc + 1].name # "callback"
    /\ ex_queue[d_pc + 1].target \notin ex_globals
    /\ d_pieces' = ApplyLocal(d_pieces, ex_queue[d_pc + 1], ex_globals)
    /\ d_pc' = d_pc + 1
    /\ UNCHANGED <<ex_queue, ex_initial, ex_globals, s_state, s_pc, s_cb, d_cb>>
    /\ UNCHANGED <<cbvars, circvars, cfgvars, entvars, addvars>>

\* Distributed execution, a gate whose target is global.
Distributed_global ==
    /\ s_pc = Len(ex_queue)
    /\ d_pc < Len(ex_queue)
    /\ ex_queue[d_pc + 1].name # "callback"
    /\ ex_queue[d_pc + 1].target \in ex_globals
    /\ d_pieces' = ApplyGlobal(d_pieces, ex_queue[d_pc + 1], ex_globals)
    /\ d_pc' = d_pc + 1
    /\ UNCHANGED <<ex_queue, ex_initial, ex_globals, s_state, s_pc, s_cb, d_cb>>
    /\ UNCHANGED <<cbvars, circvars, cfgvars, entvars, addvars>>

\* Distributed execution, a callback marker: the callback reads the composed
\* state.
Distributed_callback ==
    /\ s_pc = Len(ex_queue)
    /\ d_pc < Len(ex_queue)
    /\ ex_queue[d_pc + 1].name = "callback"
    /\ d_cb' = GateCall(d_cb, Compose(d_pieces, ex_globals))
    /\ d_pc' = d_pc + 1
    /\ UNCHANGED <<ex_queue, ex_initial, ex_globals, s_state, s_pc, s_cb, d_pieces>>
    /\ UNCHANGED <<cbvars, circvars, cfgvars, entvars, addvars>>

\* ----------------------------------------------------------- configuration
\* len(DEVICES['CPU']) of the machines explored.
NumCPU == 1

\* Largest len(DEVICES['GPU']) of the machines explored.
MaxGPU == 2

\* The dtype entries of a precision.
Single ==
    [STRING |-> "single", DTYPEINT |-> "int64", DTYPE |-> "float32",
     DTYPECPX |-> "complex64", NPTYPECPX |-> "complex64"]

Double ==
    [STRING |-> "double", DTYPEINT |-> "int64", DTYPE |-> "float64",
     DTYPECPX |-> "complex128", NPTYPECPX |-> "complex128"]

\* The names handed to set_precision.
PrecisionNames == {"single", "double", "half"}

\* BACKEND as the module defines it: there is no 'NAME' entry yet.
InitialBackend == [GATES |-> "custom", EINSUM |-> "None", STRING |-> "custom"]

\* The names handed to set_backend.
BackendNames == {"custom", "defaulteinsum", "matmuleinsum", "numpy"}

\* A device name: its first character ("" for the empty string) and the
\* fields of device_name[1:].split(":").
DeviceName(first, parts) == [first |-> first, parts |-> parts]

NoDevice == DeviceName("", <<>>)

\* The name tensorflow gives logical device k of a type.
LogicalDevice(type, k) == DeviceName("/", <<"device", type, ToString(k)>>)

\* The names handed to set_device: '/CPU:k', '/GPU:k', '/device:CPU:0',
\* '/job:x:device:CPU:0', '/CPU', 'CPU:0', '/TPU:0', '/CPU:x' and ''.
DeviceNames ==
    {DeviceName("/", <<t, ToString(k)>>) : t \in {"CPU", "GPU"}, k \in (0 - 1)..MaxGPU}
    \cup {DeviceName("/", <<"device", "CPU", "0">>),
          DeviceName("/", <<"job", "x", "device", "CPU", "0">>),
          DeviceName("/", <<"CPU">>),
          DeviceName("C", <<"PU", "0">>),
          DeviceName("/", <<"TPU", "0">>),
          DeviceName("/", <<"CPU", "x">>),
          DeviceName("", <<"">>)}

\* Whether int(field) returns.
IsInt(field) == \E k \in (0 - 1)..(MaxGPU + 1) : ToString(k) = field

\* int(field)
ParseInt(field) == CHOOSE k \in (0 - 1)..(MaxGPU + 1) : ToString(k) = field

\* A call of a switcher or getter: the string it was given, the device name
\* it was given or returned, what it raised, whether it warned, the string
\* it returned.
Call(op, arg, name, outcome, warned, value) ==
    [op |-> op, arg |-> arg, name |-> name, outcome |-> outcome,
     warned |-> warned, value |-> value]

\* set_backend(backend): BACKEND after it and what it raised.
SetBackend(b, backend) ==
    IF backend = "custom"
    THEN [BACKEND |-> [k \in DOMAIN b \cup {"NAME"} |->
                          IF k = "NAME" THEN backend
                          ELSE IF k = "GATES" THEN "custom"
                          ELSE IF k = "EINSUM" THEN "None"
                          ELSE b[k]],
          outcome |-> "ok"]
    ELSE IF backend = "defaulteinsum"
    THEN [BACKEND |-> [k \in DOMAIN b \cup {"NAME"} |->
                          IF k = "NAME" THEN backend
                          ELSE IF k = "GATES" THEN "native"
                          ELSE IF k = "EINSUM" THEN "DefaultEinsum"
                          ELSE b[k]],
          outcome |-> "ok"]
    ELSE IF backend = "matmuleinsum"
    THEN [BACKEND |-> [k \in DOMAIN b \cup {"NAME"} |->
                          IF k = "NAME" THEN backend
                          ELSE IF k = "GATES" THEN "native"
                          ELSE IF k = "EINSUM" THEN "MatmulEinsum"
                          ELSE b[k]],
          outcome |-> "ok"]
    ELSE [BACKEND |-> b, outcome |-> "RuntimeError"]

\* set_backend(backend)
set_backend(backend) ==
    /\ \E e \in {SetBackend(BACKEND, backend)} :
          /\ BACKEND' = e.BACKEND
          /\ cfg_last' = Call("set_backend", backend, NoDevice, e.outcome,
                              ~ALLOW_SWITCHERS /\ backend # BACKEND["GATES"], "")
    /\ UNCHANGED <<DTYPES, ALLOW_SWITCHERS, DEVICES>>
    /\ UNCHANGED <<cbvars, circvars, exvars, entvars, addvars>>

\* get_backend()
get_backend ==
    /\ cfg_last' = Call("get_backend", "", NoDevice, "ok", FALSE, BACKEND["STRING"])
    /\ UNCHANGED <<DTYPES, ALLOW_SWITCHERS, BACKEND, DEVICES>>
    /\ UNCHANGED <<cbvars, circvars, exvars, entvars, addvars>>

\* set_precision that leaves DTYPES['STRING'] as it was.
SetPrecisionKeepsName(d, dtype) ==
    IF dtype = "single"
    THEN [DTYPES |-> [d EXCEPT !.DTYPE = "float32", !.DTYPECPX = "complex64",
                               !.NPTYPECPX = "complex64"],
          outcome |-> "ok"]
    ELSE IF dtype = "double"
    THEN [DTYPES |-> [d EXCEPT !.DTYPE = "float64", !.DTYPECPX = "complex128",
                               !.NPTYPECPX = "complex128"],
          outcome |-> "ok"]
    ELSE [DTYPES |-> d, outcome |-> "RuntimeError"]

\* set_precision(dtype): DTYPES after it and what it raised.
SetPrecision(d, dtype) ==
    IF dtype = "single"
    THEN [DTYPES |-> [d EXCEPT !.DTYPE = "float32", !.DTYPECPX = "complex64",
                               !.NPTYPECPX = "complex64", !.STRING = dtype],
          outcome |-> "ok"]
    ELSE IF dtype = "double"
    THEN [DTYPES |-> [d EXCEPT !.DTYPE = "float64", !.DTYPECPX = "complex128",
                               !.NPTYPECPX = "complex128", !.STRING = dtype],
          outcome |-> "ok"]
    ELSE [DTYPES |-> d, outcome |-> "RuntimeError"]

\* set_precision(dtype)
set_precision(dtype) ==
    /\ \E e \in {SetPrecision(DTYPES, dtype)} :
          /\ DTYPES' = e.DTYPES
          /\ cfg_last' = Call("set_precision", dtype, NoDevice, e.outcome,
                              ~ALLOW_SWITCHERS /\ dtype # DTYPES.STRING, "")
    /\ UNCHANGED <<ALLOW_SWITCHERS, BACKEND, DEVICES>>
    /\ UNCHANGED <<cbvars, circvars, exvars, entvars, addvars>>

\* get_precision()
get_precision ==
    /\ cfg_last' = Call("get_precision", "", NoDevice, "ok", FALSE, DTYPES.STRING)
    /\ UNCHANGED <<DTYPES, ALLOW_SWITCHERS, BACKEND, DEVICES>>
    /\ UNCHANGED <<cbvars, circvars, exvars, entvars, addvars>>

\* set_device(device_name) up to the assignment of the default: DEVICES
\* after it and what it raised.
SetDevice(d, name) ==
    IF name.first = ""
    THEN \* device_name[0] of the empty string
         [DEVICES |-> d, outcome |-> "IndexError"]
    ELSE IF name.first # "/" \/ Len(name.parts) < 2 \/ Len(name.parts) > 3
    THEN [DEVICES |-> d, outcome |-> "ValueError"]
    ELSE IF ~IsInt(name.parts[Len(name.parts)])
    THEN \* int(parts[-1])
         [DEVICES |-> d, outcome |-> "ValueError"]
    ELSE IF name.parts[Len(name.parts) - 1] \notin {"CPU", "GPU"}
    THEN [DEVICES |-> d, outcome |-> "ValueError"]
    ELSE IF ParseInt(name.parts[Len(name.parts)])
               >= d[name.parts[Len(name.parts) - 1]]
    THEN [DEVICES |-> d, outcome |-> "ValueError"]
    ELSE [DEVICES |-> [d EXCEPT !.DEFAULT = name], outcome |-> "ok"]

\* What the block under tf.device(device_name) can end with once the default
\* is assigned: tensorflow may refuse a device number below 0.
AllocationOutcomes(name) ==
    IF ParseInt(name.parts[Len(name.parts)]) < 0
    THEN {"ok", "TensorflowError"}
    ELSE {"ok"}

\* set_device(device_name)
set_device(name) ==
    /\ \E e \in {SetDevice(DEVICES, name)} :
          /\ DEVICES' = e.DEVICES
          /\ \E outcome \in (IF e.outcome = "ok" THEN AllocationOutcomes(name)
                             ELSE {e.outcome}) :
                cfg_last' = Call("set_device", "", name, outcome,
                                 ~ALLOW_SWITCHERS /\ name # DEVICES.DEFAULT, "")
    /\ UNCHANGED <<DTYPES, ALLOW_SWITCHERS, BACKEND>>
    /\ UNCHANGED <<cbvars, circvars, exvars, entvars, addvars>>

\* get_device()
get_device ==
    /\ cfg_last' = Call("get_device", "", DEVICES.DEFAULT, "ok", FALSE, "")
    /\ UNCHANGED <<DTYPES, ALLOW_SWITCHERS, BACKEND, DEVICES>>
    /\ UNCHANGED <<cbvars, circvars, exvars, entvars, addvars>>

\* Gates or a state are allocated: the switchers warn from now on.
Allocate ==
    /\ ALLOW_SWITCHERS
    /\ ALLOW_SWITCHERS' = FALSE
    /\ cfg_last' = Call("allocate", "", NoDevice, "ok", FALSE, "")
    /\ UNCHANGED <<DTYPES, BACKEND, DEVICES>>
    /\ UNCHANGED <<cbvars, circvars, exvars, entvars, addvars>>

\* DEVICES on a machine with the given device counts: the default is the
\* first GPU if there is one, else the first CPU.
InitialDevices(ncpu, ngpu) ==
    [CPU |-> ncpu, GPU |-> ngpu,
     DEFAULT |-> IF ngpu > 0 THEN LogicalDevice("GPU", 0) ELSE LogicalDevice("CPU", 0)]

\* ------------------------------------------------- _entropy on a spectrum
\* Longest spectrum handed to _entropy.
MaxEig == 3

\* EIGVAL_CUTOFF = 1e-14, as the number of decimal places of 10^-14.
CutoffPlaces == 14

\* The eigenvalue m * 10^-k.
Eig(m, k) == [m |-> m, k |-> k]

RECURSIVE Pow10(_)
Pow10(k) == IF k <= 0 THEN 1 ELSE 10 * Pow10(k - 1)

\* The eigenvalues explored, after test_entropy_numerical: 0, -1e-10,
\* -1e-15, 1e-48, 9e-15, 1e-14, 1.1e-14, 5e-14, 0.5, 1 and 4.
Eigenvalues ==
    {Eig(0, 0), Eig(0 - 1, 10), Eig(0 - 1, 15), Eig(1, 48), Eig(9, 15),
     Eig(1, CutoffPlaces), Eig(11, 15), Eig(5, 14), Eig(5, 1), Eig(1, 0), Eig(4, 0)}

\* The mask with >= in place of >.
ReachesCutoff(x) ==
    /\ x.m > 0
    /\ IF x.k < CutoffPlaces THEN TRUE
       ELSE IF x.k = CutoffPlaces THEN x.m >= 1
       ELSE IF x.k - CutoffPlaces > 9 THEN FALSE
       ELSE x.m >= Pow10(x.k - CutoffPlaces)

\* eigvals > EIGVAL_CUTOFF for the eigenvalue x: m * 10^-k > 10^-14.
ExceedsCutoff(x) ==
    /\ x.m > 0
    /\ IF x.k < CutoffPlaces THEN TRUE
       ELSE IF x.k = CutoffPlaces THEN x.m > 1
       ELSE IF x.k - CutoffPlaces > 9 THEN FALSE
       ELSE x.m > Pow10(x.k - CutoffPlaces)

\* tf.gather(eigvals, tf.where(eigvals > EIGVAL_CUTOFF))[:, 0]
MaskedEigvals(ev) == SelectSeq(ev, ExceedsCutoff)

\* - tf.reduce_sum(masked * tf.math.log(masked)) / log 2, kept as the list
\* of the eigenvalues summed over: the sum has no term for an empty list, a
\* term x * log2(x) is 0 for x = 1 only, and the logarithm of a value that
\* is not positive makes the sum nan.
EntropySum(masked) ==
    IF \E i \in 1..Len(masked) : masked[i].m <= 0
    THEN [outcome |-> "nan", terms |-> masked, zero |-> FALSE]
    ELSE [outcome |-> "ok", terms |-> masked,
          zero |-> \A i \in 1..Len(masked) : masked[i] = Eig(1, 0)]

\* EntanglementEntropy._entropy on a matrix of the given eigenvalues.
EntropyOfEigvals(ev) == EntropySum(MaskedEigvals(ev))

NoResult == [outcome |-> "none", terms |-> <<>>, zero |-> FALSE]

\* EntanglementEntropy._entropy(rho)
EntanglementEntropy_entropy ==
    /\ ent_result = NoResult
    /\ ent_result' = EntropyOfEigvals(eigvals)
    /\ UNCHANGED eigvals
    /\ UNCHANGED <<cbvars, circvars, exvars, cfgvars, addvars>>

\* -------------------------------------------------------- circuit addition
\* Longest queue of an operand of c1 + c2.
MaxOperandDepth == 2

\* The circuit a constructor call returns: cls(nqubits), with no final state.
NewCircuit(n) ==
    [nqubits |-> n, queue |-> <<>>, final_state |-> "None",
     measurement_sets |-> <<>>, measurement_gate |-> NoGate]

\* No circuit: c1 + c2 raised before it made one.
NoCircuit == NewCircuit(None)

\* The gates in the queues of the operands of n qubits, bound to n.
OperandGates(n) ==
    {Gate("h", <<0>>, <<0>>, n, NoName),
     Gate("h", <<n - 1>>, <<n - 1>>, n, NoName),
     Gate("cnot", <<0, 1>>, <<1>>, n, NoName)}

\* The operands: circuits of n qubits with a queue of bound gates, executed
\* or not, with the last qubit measured or not.
Operands(n) ==
    {[nqubits |-> n, queue |-> q, final_state |-> f,
      measurement_sets |-> IF m THEN [r \in {AutoName(0)} |-> <<n - 1>>] ELSE <<>>,
      measurement_gate |-> IF m THEN [present |-> TRUE, target_qubits |-> <<n - 1>>]
                           ELSE NoGate] :
        q \in UNION {[1..k -> OperandGates(n)] : k \in 0..MaxOperandDepth},
        f \in {"None", "tensor"},
        m \in BOOLEAN}

RECURSIVE AddAll(_, _)
\* for gate in gates: e.circuit.add(gate), up to the first add that raises.
AddAll(e, gates) ==
    IF gates = <<>> \/ e.raised # "" THEN e
    ELSE AddAll(Add(e.circuit, Head(gates)), Tail(gates))

\* Addition that queues the gates of the right operand first.
CircuitAdditionSwapped(a, b) ==
    IF a.nqubits # b.nqubits
    THEN [c1 |-> a, c2 |-> b, circuit |-> NoCircuit, raised |-> "ValueError"]
    ELSE LET e == AddAll(AddAll([circuit |-> NewCircuit(a.nqubits), raised |-> ""],
                                b.queue), a.queue)
         IN [c1 |-> a, c2 |-> b, circuit |-> e.circuit, raised |-> e.raised]

\* BaseCircuit._circuit_addition(cls, c1, c2): the operands after it, the
\* circuit returned and what it raised.
CircuitAddition(a, b) ==
    IF a.nqubits # b.nqubits
    THEN [c1 |-> a, c2 |-> b, circuit |-> NoCircuit, raised |-> "ValueError"]
    ELSE LET e == AddAll(AddAll([circuit |-> NewCircuit(a.nqubits), raised |-> ""],
                                a.queue), b.queue)
         IN [c1 |-> a, c2 |-> b, circuit |-> e.circuit, raised |-> e.raised]

\* c1 + c2
BaseCircuit_addition ==
    /\ add_raised = "pending"
    /\ \E e \in {CircuitAddition(c1, c2)} :
          /\ c1' = e.c1
          /\ c2' = e.c2
          /\ newcircuit' = e.circuit
          /\ add_raised' = e.raised
    /\ UNCHANGED <<cbvars, circvars, exvars, cfgvars, entvars>>

\* ------------------------------------------------------------ specifications
\* The callback on its own, beside an empty circuit and no execution.
InitCallback ==
    /\ cb_results = <<>>
    /\ cb_nqubits = None
    /\ partition \in Partitions
    /\ given = partition
    /\ rho_dim = None
    /\ traceout = NoTrace
    /\ log = <<>>
    /\ last = Outcome("init", NoKey, "ok", <<>>)
    /\ nqubits = 2
    /\ queue = <<>>
    /\ final_state = "None"
    /\ measurement_sets = <<>>
    /\ measurement_gate = NoGate
    /\ raised = ""
    /\ ex_queue = <<>>
    /\ ex_initial = ZeroState(2)
    /\ ex_globals = {}
    /\ s_state = ZeroState(2)
    /\ s_pc = 0
    /\ s_cb = NewCallback(<<0>>)
    /\ d_pieces = Split(ZeroState(2), {})
    /\ d_pc = 0
    /\ d_cb = NewCallback(<<0>>)
    /\ DTYPES = Double
    /\ ALLOW_SWITCHERS = TRUE
    /\ BACKEND = InitialBackend
    /\ DEVICES = InitialDevices(NumCPU, 0)
    /\ cfg_last = Call("import", "", NoDevice, "ok", FALSE, "")
    /\ eigvals = <<>>
    /\ ent_result = NoResult
    /\ c1 = NewCircuit(2)
    /\ c2 = NewCircuit(2)
    /\ newcircuit = NoCircuit
    /\ add_raised = "pending"

NextCallback ==
    \/ \E r \in Values : Callback_append(r)
    \/ \E rs \in {<<>>} \cup {<<a, b>> : a, b \in Values} : Callback_extend(rs)
    \/ \E k \in Keys : Callback_getitem(k)
    \/ \E n \in 1..MaxQubits : PartialTrace_nqubits(n)
    \/ \E arg \in CallArgs : PartialTrace_call(arg)
    \/ \E sv \in StateVectors : CallbackGate_call(sv)

SpecCallback == InitCallback /\ [][NextCallback]_vars

\* The circuit on its own, beside an unused callback and no execution.
InitCircuit ==
    /\ cb_results = <<>>
    /\ cb_nqubits = None
    /\ partition = NoPartition
    /\ given = NoPartition
    /\ rho_dim = None
    /\ traceout = NoTrace
    /\ log = <<>>
    /\ last = Outcome("init", NoKey, "ok", <<>>)
    /\ nqubits \in CircuitQubits
    /\ queue = <<>>
    /\ final_state = "None"
    /\ measurement_sets = <<>>
    /\ measurement_gate = NoGate
    /\ raised = ""
    /\ ex_queue = <<>>
    /\ ex_initial = ZeroState(2)
    /\ ex_globals = {}
    /\ s_state = ZeroState(2)
    /\ s_pc = 0
    /\ s_cb = NewCallback(<<0>>)
    /\ d_pieces = Split(ZeroState(2), {})
    /\ d_pc = 0
    /\ d_cb = NewCallback(<<0>>)
    /\ DTYPES = Double
    /\ ALLOW_SWITCHERS = TRUE
    /\ BACKEND = InitialBackend
    /\ DEVICES = InitialDevices(NumCPU, 0)
    /\ cfg_last = Call("import", "", NoDevice, "ok", FALSE, "")
    /\ eigvals = <<>>
    /\ ent_result = NoResult
    /\ c1 = NewCircuit(2)
    /\ c2 = NewCircuit(2)
    /\ newcircuit = NoCircuit
    /\ add_raised = "pending"

NextCircuit ==
    \/ \E gate \in GatesFor(nqubits) : BaseCircuit_add(gate)
    \/ Circuit_execute

SpecCircuit == InitCircuit /\ [][NextCircuit]_vars

\* The execution of one queue on a single store and then on 2^g pieces,
\* each with an entropy callback of its own on partition [0].
InitExec ==
    /\ cb_results = <<>>
    /\ cb_nqubits = None
    /\ partition = NoPartition
    /\ given = NoPartition
    /\ rho_dim = None
    /\ traceout = NoTrace
    /\ log = <<>>
    /\ last = Outcome("init", NoKey, "ok", <<>>)
    /\ nqubits = 2
    /\ queue = <<>>
    /\ final_state = "None"
    /\ measurement_sets = <<>>
    /\ measurement_gate = NoGate
    /\ raised = ""
    /\ \E n \in ExecQubits :
          /\ ex_queue \in Queues(n)
          /\ ex_initial \in {ZeroState(n), GHZState(n)}
          /\ ex_globals \in SUBSET (0..(n - 1))
    /\ s_state = ex_initial
    /\ s_pc = 0
    /\ s_cb = NewCallback(<<0>>)
    /\ d_pieces = Split(ex_initial, ex_globals)
    /\ d_pc = 0
    /\ d_cb = NewCallback(<<0>>)
    /\ DTYPES = Double
    /\ ALLOW_SWITCHERS = TRUE
    /\ BACKEND = InitialBackend
    /\ DEVICES = InitialDevices(NumCPU, 0)
    /\ cfg_last = Call("import", "", NoDevice, "ok", FALSE, "")
    /\ eigvals = <<>>
    /\ ent_result = NoResult
    /\ c1 = NewCircuit(2)
    /\ c2 = NewCircuit(2)
    /\ newcircuit = NoCircuit
    /\ add_raised = "pending"

NextExec ==
    \/ Single_gate
    \/ Single_callback
    \/ Distributed_local
    \/ Distributed_global
    \/ Distributed_callback

SpecExec == InitExec /\ [][NextExec]_vars

\* The configuration module on a machine with one CPU and up to MaxGPU GPUs.
InitConfig ==
    /\ cb_results = <<>>
    /\ cb_nqubits = None
    /\ partition = NoPartition
    /\ given = NoPartition
    /\ rho_dim = None
    /\ traceout = NoTrace
    /\ log = <<>>
    /\ last = Outcome("init", NoKey, "ok", <<>>)
    /\ nqubits = 2
    /\ queue = <<>>
    /\ final_state = "None"
    /\ measurement_sets = <<>>
    /\ measurement_gate = NoGate
    /\ raised = ""
    /\ ex_queue = <<>>
    /\ ex_initial = ZeroState(2)
    /\ ex_globals = {}
    /\ s_state = ZeroState(2)
    /\ s_pc = 0
    /\ s_cb = NewCallback(<<0>>)
    /\ d_pieces = Split(ZeroState(2), {})
    /\ d_pc = 0
    /\ d_cb = NewCallback(<<0>>)
    /\ DTYPES = Double
    /\ ALLOW_SWITCHERS = TRUE
    /\ BACKEND = InitialBackend
    /\ \E ngpu \in 0..MaxGPU : DEVICES = InitialDevices(NumCPU, ngpu)
    /\ cfg_last = Call("import", "", NoDevice, "ok", FALSE, "")
    /\ eigvals = <<>>
    /\ ent_result = NoResult
    /\ c1 = NewCircuit(2)
    /\ c2 = NewCircuit(2)
    /\ newcircuit = NoCircuit
    /\ add_raised = "pending"

NextConfig ==
    \/ \E backend \in BackendNames : set_backend(backend)
    \/ get_backend
    \/ \E dtype \in PrecisionNames : set_precision(dtype)
    \/ get_precision
    \/ \E name \in DeviceNames : set_device(name)
    \/ get_device
    \/ Allocate

SpecConfig == InitConfig /\ [][NextConfig]_vars

\* _entropy on every spectrum of up to MaxEig eigenvalues.
InitEntropy ==
    /\ cb_results = <<>>
    /\ cb_nqubits = None
    /\ partition = NoPartition
    /\ given = NoPartition
    /\ rho_dim = None
    /\ traceout = NoTrace
    /\ log = <<>>
    /\ last = Outcome("init", NoKey, "ok", <<>>)
    /\ nqubits = 2
    /\ queue = <<>>
    /\ final_state = "None"
    /\ measurement_sets = <<>>
    /\ measurement_gate = NoGate
    /\ raised = ""
    /\ ex_queue = <<>>
    /\ ex_initial = ZeroState(2)
    /\ ex_globals = {}
    /\ s_state = ZeroState(2)
    /\ s_pc = 0
    /\ s_cb = NewCallback(<<0>>)
    /\ d_pieces = Split(ZeroState(2), {})
    /\ d_pc = 0
    /\ d_cb = NewCallback(<<0>>)
    /\ DTYPES = Double
    /\ ALLOW_SWITCHERS = TRUE
    /\ BACKEND = InitialBackend
    /\ DEVICES = InitialDevices(NumCPU, 0)
    /\ cfg_last = Call("import", "", NoDevice, "ok", FALSE, "")
    /\ eigvals \in UNION {[1..k -> Eigenvalues] : k \in 0..MaxEig}
    /\ ent_result = NoResult
    /\ c1 = NewCircuit(2)
    /\ c2 = NewCircuit(2)
    /\ newcircuit = NoCircuit
    /\ add_raised = "pending"

NextEntropy ==
    \/ EntanglementEntropy_entropy

SpecEntropy == InitEntropy /\ [][NextEntropy]_vars

\* c1 + c2 on every pair of operands.
InitAddition ==
    /\ cb_results = <<>>
    /\ cb_nqubits = None
    /\ partition = NoPartition
    /\ given = NoPartition
    /\ rho_dim = None
    /\ traceout = NoTrace
    /\ log = <<>>
    /\ last = Outcome("init", NoKey, "ok", <<>>)
    /\ nqubits = 2
    /\ queue = <<>>
    /\ final_state = "None"
    /\ measurement_sets = <<>>
    /\ measurement_gate = NoGate
    /\ raised = ""
    /\ ex_queue = <<>>
    /\ ex_initial = ZeroState(2)
    /\ ex_globals = {}
    /\ s_state = ZeroState(2)
    /\ s_pc = 0
    /\ s_cb = NewCallback(<<0>>)
    /\ d_pieces = Split(ZeroState(2), {})
    /\ d_pc = 0
    /\ d_cb = NewCallback(<<0>>)
    /\ DTYPES = Double
    /\ ALLOW_SWITCHERS = TRUE
    /\ BACKEND = InitialBackend
    /\ DEVICES = InitialDevices(NumCPU, 0)
    /\ cfg_last = Call("import", "", NoDevice, "ok", FALSE, "")
    /\ eigvals = <<>>
    /\ ent_result = NoResult
    /\ \E n1, n2 \in CircuitQubits :
          /\ c1 \in Operands(n1)
          /\ c2 \in Operands(n2)
    /\ newcircuit = NoCircuit
    /\ add_raised = "pending"

NextAddition ==
    \/ BaseCircuit_addition

SpecAddition == InitAddition /\ [][NextAddition]_vars

\* ====================================================== callback properties
\* C1: the result sequence is append-only.  append, extend and a callback
\* gate add their results at the end, in invocation order (the sequence is
\* the history of every recorded result); no step drops or reorders what is
\* already recorded, and neither an indexing nor a direct call changes the
\* sequence.
C1_AppendOnly ==
    [][/\ Len(cb_results') >= Len(cb_results)
       /\ SubSeq(cb_results', 1, Len(cb_results)) = cb_results
       /\ cb_results' = log'
       /\ last'.op \in {"getitem", "call", "nqubits"} => cb_results' = cb_results
       /\ last'.op = "append" => cb_results' = Append(cb_results, last'.value[1])
       /\ last'.op = "extend" => cb_results' = cb_results \o last'.value]_vars

\* A full sequence, recorded by hand and by callback gates, read back.
C1_Witness ==
    /\ Len(cb_results) = MaxResults
    /\ cb_results[1] # cb_results[MaxResults]
    /\ cb_nqubits # None
    /\ last.op = "getitem"
    /\ last.outcome = "ok"

C5_SliceAndList ==
    last.op = "getitem" =>
        /\ (/\ last.key.type = "slice"
            /\ PyListSlice(cb_results, last.key.lo, last.key.hi) # <<>>)
              => /\ last.outcome = "ok"
                 /\ last.value = PyListSlice(cb_results, last.key.lo, last.key.hi)
        /\ (/\ last.key.type \in {"list", "tuple"}
            /\ \A j \in 1..Len(last.key.idx) :
                  0 <= last.key.idx[j] /\ last.key.idx[j] < Len(cb_results))
              => /\ last.outcome = "ok"
                 /\ last.value = [j \in 1..Len(last.key.idx) |->
                                     cb_results[last.key.idx[j] + 1]]

\* C9: a call on a value that is neither a numpy array nor a tensor raises
\* TypeError, and the call leaves the qubit count, the partition, rho_dim,
\* the trace pattern and the results as they were.
C9_TypeErrorFirst ==
    [][(last'.op = "call" /\ last'.key.type \notin {"ndarray", "tensor"})
          => /\ last'.outcome = "TypeError"
             /\ UNCHANGED <<cb_nqubits, partition, rho_dim, traceout, cb_results>>]_vars

\* A list handed to a callback that is not bound yet, and stays unbound.
C9_Witness ==
    /\ last.op = "call"
    /\ last.key.type = "list"
    /\ last.outcome = "TypeError"
    /\ cb_nqubits = None
    /\ rho_dim = None
    /\ Len(cb_results) >= 1

\* A step that binds the callback to a qubit count: the setter, or the first
\* call or callback gate on a state.
Binds == last'.op = "nqubits" \/ (cb_nqubits = None /\ cb_nqubits' # None)

\* C10 (as the code has it): when the callback is bound to n qubits, a
\* partition of fewer than n div 2 qubits is replaced by its complement in
\* [0, n) and a partition of at least n div 2 qubits is kept; rho_dim is 2
\* to the number of qubits outside the partition that is kept.
C10_SwitchSmaller ==
    [][Binds =>
         LET n == cb_nqubits'
             p0 == IF partition = NoPartition THEN DefaultPartition(n) ELSE partition
         IN /\ Len(p0) < n \div 2 => partition' = Complement(p0, n)
            /\ Len(p0) >= n \div 2 => partition' = p0
            /\ rho_dim' = Pow2(n - Len(partition'))]_vars

\* A callback constructed on one qubit and bound to four by a state: it
\* holds the other three.
C10_Witness ==
    /\ given = <<0>>
    /\ cb_nqubits = 4
    /\ partition = <<1, 2, 3>>
    /\ rho_dim = 2
    /\ last.op = "call"
    /\ last.outcome = "ok"

\* C10 as stated: a partition of more than half of the n qubits is replaced
\* by its complement, a partition of at most half is kept.
C10_AsStated ==
    [][Binds =>
         LET n == cb_nqubits'
             p0 == IF partition = NoPartition THEN DefaultPartition(n) ELSE partition
         IN /\ 2 * Len(p0) > n => partition' = Complement(p0, n)
            /\ 2 * Len(p0) <= n => partition' = p0]_vars

\* =========================================== binding and the trace pattern
\* C11: the first call on a state of n qubits binds nqubits = n and
\* normalises the partition; a call or a callback gate on a bound callback
\* leaves nqubits, the partition and rho_dim as they were; setting nqubits to
\* the count already bound leaves the partition and rho_dim as they were.
C11_BindsOnce ==
    [][/\ (last'.op = "call" /\ last'.outcome = "ok" /\ cb_nqubits = None)
             => /\ cb_nqubits' = last'.key.n
                /\ partition' = NqubitsSetter(partition, last'.key.n).partition
                /\ rho_dim' = Pow2(cb_nqubits' - Len(partition'))
       /\ (last'.op \in {"call", "gate"} /\ cb_nqubits # None)
             => UNCHANGED <<cb_nqubits, partition, rho_dim>>
       /\ (last'.op = "nqubits" /\ cb_nqubits' = cb_nqubits)
             => UNCHANGED <<partition, rho_dim>>]_vars

\* A callback constructed on [0], bound to four qubits, then called on a
\* state of another size: it stays bound to four.
C11_Witness ==
    /\ given = <<0>>
    /\ cb_nqubits = 4
    /\ partition = <<1, 2, 3>>
    /\ last.op = "call"
    /\ last.key.n = 2
    /\ last.outcome = "InvalidArgumentError"

\* C12: a stored trace pattern is the pattern of the current partition and
\* qubit count; a density-matrix call computes it when none is stored and
\* leaves a stored one as it is; a call on a state vector never touches it;
\* setting nqubits clears it.
C12_PatternCoherent ==
    /\ [](traceout # NoTrace =>
             traceout = TracePattern(SeqToSet(partition), cb_nqubits))
    /\ [][/\ (last'.op \in {"call", "gate"} /\ traceout # NoTrace)
                => traceout' = traceout
          /\ (last'.op = "call" /\ last'.outcome = "ok" /\ last'.key.dm)
                => traceout' # NoTrace
          /\ (last'.op = "gate" \/ (last'.op = "call" /\ ~last'.key.dm))
                => traceout' = traceout
          /\ last'.op = "nqubits" => traceout' = NoTrace]_vars

\* A pattern stored for a partition that was switched at the binding, reused
\* by a later density-matrix call.
C12_Witness ==
    /\ given = <<0>>
    /\ cb_nqubits = 4
    /\ traceout = TracePattern({1, 2, 3}, 4)
    /\ last.op = "call"
    /\ last.key.dm
    /\ last.outcome = "ok"
    /\ Len(cb_results) >= 1

\* C16 as stated: once bound, rho_dim is 2^(n - |partition|) for the stored
\* partition and is at most 2^|partition|.
C16_SmallerMatrix ==
    cb_nqubits # None =>
        /\ rho_dim = Pow2(cb_nqubits - Len(partition))
        /\ rho_dim <= Pow2(Len(partition))

\* ======================================================= circuit properties
\* The qubits measured so far.
Measured == SeqToSet(measurement_gate.target_qubits)

\* C6: on a circuit that holds a final state every add raises RuntimeError
\* and leaves the queue and the registers as they were; on a circuit that
\* holds none, add never raises RuntimeError and queues an unbound gate on
\* unmeasured qubits.
C6_NoAddAfterExecution ==
    /\ [](\A gate \in GatesFor(nqubits) :
             LET e == Add(Circuit, gate)
             IN /\ final_state # "None"
                      => (e.raised = "RuntimeError" /\ e.circuit = Circuit)
                /\ final_state = "None" => e.raised # "RuntimeError"
                /\ (/\ final_state = "None"
                    /\ gate.name # "measure"
                    /\ gate.nq = None
                    /\ SeqToSet(gate.qubits) \cap Measured = {})
                      => (e.raised = "" /\ Len(e.circuit.queue) = Len(queue) + 1))
    /\ [][final_state # "None"
             => /\ UNCHANGED <<queue, measurement_sets, measurement_gate>>
                /\ raised' \in {"", "RuntimeError"}]_vars

\* A circuit with gates and a register, executed, and an add refused.
C6_Witness ==
    /\ final_state # "None"
    /\ raised = "RuntimeError"
    /\ Len(queue) >= 1
    /\ measurement_gate.present

\* C7: every queued gate is bound to the qubit count of the circuit; on a
\* circuit not yet executed, add binds an unbound gate to that count, and
\* add of a gate bound to a different count raises ValueError and changes
\* neither the queue nor the registers.
C7_GatesBound ==
    /\ [](/\ \A i \in 1..Len(queue) : queue[i].nq = nqubits
          /\ final_state = "None" =>
                \A gate \in GatesFor(nqubits) :
                   LET e == Add(Circuit, gate)
                   IN /\ (gate.nq # None /\ gate.nq # nqubits)
                            => /\ e.raised = "ValueError: qubit count"
                               /\ e.circuit = Circuit
                      /\ (gate.nq = None /\ gate.name # "measure" /\ e.raised = "")
                            => e.circuit.queue
                                  = Append(queue, [gate EXCEPT !.nq = nqubits]))
    /\ [][raised' = "ValueError: qubit count"
             => UNCHANGED <<queue, measurement_sets, measurement_gate>>]_vars

\* A gate of another qubit count refused by a circuit that holds gates.
C7_Witness ==
    /\ raised = "ValueError: qubit count"
    /\ Len(queue) >= 2
    /\ final_state = "None"

\* C8: add of a gate, measurement or not, on a measured qubit raises and
\* changes neither the queue nor the registers; a gate enters the queue only
\* while none of its qubits is measured; a qubit enters a register only
\* while it is unmeasured, and no qubit is in two registers.
C8_MeasuredNeverReused ==
    /\ [](/\ \A gate \in GatesFor(nqubits) :
                SeqToSet(gate.qubits) \cap Measured # {}
                   => LET e == Add(Circuit, gate)
                      IN e.raised # "" /\ e.circuit = Circuit
          /\ \A r1, r2 \in DOMAIN measurement_sets :
                r1 # r2 => SeqToSet(measurement_sets[r1])
                              \cap SeqToSet(measurement_sets[r2]) = {})
    /\ [][/\ Len(queue') > Len(queue)
                => SeqToSet(queue'[Len(queue')].qubits) \cap Measured = {}
          /\ raised' = "ValueError: measured"
                => UNCHANGED <<queue, measurement_sets, measurement_gate>>
          /\ \A r \in DOMAIN measurement_sets' :
                (r \notin DOMAIN measurement_sets
                    \/ measurement_sets'[r] # measurement_sets[r])
                   => SeqToSet(measurement_sets'[r]) \cap Measured = {}]_vars

\* Two registers, a queued gate, and a gate on a measured qubit refused.
C8_Witness ==
    /\ raised = "ValueError: measured"
    /\ Len(queue) >= 1
    /\ Cardinality(DOMAIN measurement_sets) >= 2
    /\ final_state = "None"

\* C17 as stated: no measurement gate enters the queue; an add that takes a
\* measurement gate makes one new register and leaves every earlier register
\* as it was; an add that raises KeyError changes neither the registers nor
\* the measurement gate.
C17_OwnRegister ==
    [][/\ \A i \in 1..Len(queue') : queue'[i].name # "measure"
       /\ measurement_gate' # measurement_gate
             => /\ Cardinality(DOMAIN measurement_sets')
                      = Cardinality(DOMAIN measurement_sets) + 1
                /\ \A r \in DOMAIN measurement_sets :
                      /\ r \in DOMAIN measurement_sets'
                      /\ measurement_sets'[r] = measurement_sets[r]
       /\ raised' = "KeyError"
             => UNCHANGED <<queue, measurement_sets, measurement_gate>>]_vars

\* ===================================================== execution properties
\* The position in the queue of its k-th callback marker.
MarkerAt(q, k) ==
    CHOOSE j \in 1..Len(q) :
        /\ q[j].name = "callback"
        /\ Cardinality({i \in 1..j : q[i].name = "callback"}) = k

RECURSIVE StateAfter(_, _, _)
\* The state after the gates among the first j entries of the queue q,
\* applied in order to sv.
StateAfter(q, j, sv) ==
    IF j = 0 THEN sv
    ELSE LET before == StateAfter(q, j - 1, sv)
         IN IF q[j].name = "callback" THEN before ELSE ApplyGate(before, q[j])

\* The entropies the markers of the queue are to produce on partition [0].
MarkerEntropies(q, sv) ==
    [k \in 1..Cardinality({i \in 1..Len(q) : q[i].name = "callback"}) |->
        EntropyOf(StateAfter(q, MarkerAt(q, k), sv),
                  NqubitsSetter(<<0>>, sv.n).partition)]

\* Both executions have run the whole queue.
Executed == s_pc = Len(ex_queue) /\ d_pc = Len(ex_queue)

\* C2: an execution appends one result for every callback marker it has
\* passed; once the queue has run, the k-th result is the entropy of the
\* state after exactly the gates that precede the k-th marker, on a single
\* store and on pieces alike; the queue marker, H(0), marker, CNOT(0, 1),
\* marker run from |00> records the entropies 0, 0, 1.
C2_MarkerSeesPrefix ==
    /\ Len(s_cb.results)
          = Cardinality({i \in 1..s_pc : ex_queue[i].name = "callback"})
    /\ Len(d_cb.results)
          = Cardinality({i \in 1..d_pc : ex_queue[i].name = "callback"})
    /\ Executed =>
          /\ s_cb.results = MarkerEntropies(ex_queue, ex_initial)
          /\ d_cb.results = MarkerEntropies(ex_queue, ex_initial)
          /\ (ex_queue = ExampleQueue /\ ex_initial = ZeroState(2))
                => s_cb.results = <<0, 0, 1>>

\* The queue of the example, run to its end on two pieces.
C2_Witness ==
    /\ ex_queue = ExampleQueue
    /\ ex_initial = ZeroState(2)
    /\ Cardinality(ex_globals) = 1
    /\ Executed
    /\ d_cb.results = <<0, 0, 1>>

\* C3: when both executions have run the queue, the pieces compose to the
\* amplitudes of the single execution and the callbacks hold the same
\* results, for 2^g pieces with g global qubits.
C3_DistributedEqualsSingle ==
    Executed =>
        /\ Compose(d_pieces, ex_globals) = s_state
        /\ d_cb.results = s_cb.results

\* Eight pieces, an entangling queue with a gate on a global target, run to
\* its end.
C3_Witness ==
    /\ Executed
    /\ Cardinality(ex_globals) = 3
    /\ Len(ex_queue) = MaxExecDepth
    /\ \E i \in 1..Len(ex_queue) : ex_queue[i].name = "cnot"
    /\ d_cb.results = <<1>>

\* ================================================= configuration properties
\* C14 (as the code has it): the dtype entries always belong to one
\* precision; a set_precision that returns has switched every entry to the
\* precision named; any other name raises RuntimeError and changes no entry;
\* get_precision returns DTYPES['STRING']; once gates are allocated a
\* switch to a different precision warns and is carried out in full.
C14_WholeSwitch ==
    /\ [](/\ DTYPES \in {Single, Double}
          /\ cfg_last.op = "get_precision" => cfg_last.value = DTYPES.STRING)
    /\ [][cfg_last'.op = "set_precision" =>
             /\ cfg_last'.arg = "single" =>
                   cfg_last'.outcome = "ok" /\ DTYPES' = Single
             /\ cfg_last'.arg = "double" =>
                   cfg_last'.outcome = "ok" /\ DTYPES' = Double
             /\ cfg_last'.arg \notin {"single", "double"} =>
                   cfg_last'.outcome = "RuntimeError" /\ DTYPES' = DTYPES
             /\ (~ALLOW_SWITCHERS /\ cfg_last'.outcome = "ok"
                     /\ cfg_last'.arg # DTYPES.STRING) =>
                   cfg_last'.warned /\ DTYPES'.STRING = cfg_last'.arg]_vars

\* Gates are allocated in double precision, then set_precision('single')
\* warns and switches.
C14_Witness ==
    /\ ~ALLOW_SWITCHERS
    /\ cfg_last.op = "set_precision"
    /\ cfg_last.arg = "single"
    /\ cfg_last.warned
    /\ cfg_last.outcome = "ok"
    /\ DTYPES = Single

\* C14 as stated: once gates are allocated a set_precision to a different
\* precision changes no entry.
C14_AsStated ==
    [][(cfg_last'.op = "set_precision" /\ ~ALLOW_SWITCHERS
            /\ cfg_last'.arg # DTYPES.STRING) => DTYPES' = DTYPES]_vars

\* C15 as stated: after a set_backend that returned, get_backend returns the
\* name it was given; a set_backend that raises RuntimeError leaves BACKEND
\* unchanged.
C15_GetReturnsSet ==
    /\ []((cfg_last.op = "get_backend" /\ "NAME" \in DOMAIN BACKEND)
             => cfg_last.value = BACKEND["NAME"])
    /\ [][(cfg_last'.op = "set_backend" /\ cfg_last'.outcome = "RuntimeError")
             => BACKEND' = BACKEND]_vars

\* A name of the form '/{CPU|GPU}:{number}', with at most one more leading
\* field, of a device that exists: 0 <= number < the count of its type.
WellFormedDevice(d, name) ==
    /\ name.first = "/"
    /\ Len(name.parts) \in {2, 3}
    /\ name.parts[Len(name.parts) - 1] \in {"CPU", "GPU"}
    /\ \E k \in 0..(d[name.parts[Len(name.parts) - 1]] - 1) :
          name.parts[Len(name.parts)] = ToString(k)

\* C19 as stated: the default device is the initial default or a
\* well-formed name of an existing device, and set_device with any other
\* name raises ValueError and leaves the default unchanged.
C19_OnlyExistingDevices ==
    /\ [](\/ DEVICES.DEFAULT = InitialDevices(DEVICES.CPU, DEVICES.GPU).DEFAULT
          \/ WellFormedDevice(DEVICES, DEVICES.DEFAULT))
    /\ [][(cfg_last'.op = "set_device"
              /\ ~WellFormedDevice(DEVICES, cfg_last'.name))
             => /\ cfg_last'.outcome = "ValueError"
                /\ DEVICES' = DEVICES]_vars

\* ======================================================= entropy properties
\* The eigenvalues explored that are strictly greater than 1e-14: 1.1e-14,
\* 5e-14, 0.5, 1 and 4.
AboveCutoff14 == {Eig(11, 15), Eig(5, 14), Eig(5, 1), Eig(1, 0), Eig(4, 0)}

\* C13: _entropy returns without an error; its sum runs over exactly the
\* eigenvalues strictly greater than 1e-14, in order; 0, negative values and
\* 1e-14 itself are not in it; when no eigenvalue is greater than the cutoff
\* the sum is empty and the entropy is 0.
C13_CutoffMask ==
    ent_result # NoResult =>
        /\ ent_result.outcome = "ok"
        /\ LET above(x) == x \in AboveCutoff14
           IN ent_result.terms = SelectSeq(eigvals, above)
        /\ \A i \in 1..Len(ent_result.terms) :
              ent_result.terms[i] \notin
                  {Eig(0, 0), Eig(0 - 1, 10), Eig(0 - 1, 15), Eig(1, 14)}
        /\ (\A i \in 1..Len(eigvals) : eigvals[i] \notin AboveCutoff14)
              => ent_result.terms = <<>> /\ ent_result.zero

\* The spectrum 1e-14, -1e-10, 0 has given entropy 0.
C13_Witness ==
    /\ eigvals = <<Eig(1, 14), Eig(0 - 1, 10), Eig(0, 0)>>
    /\ ent_result.outcome = "ok"
    /\ ent_result.zero

=============================================================================
